---- MODULE Spec2Model ----
(***************************************************************************)
(* Model of the three scripts of the repository:                           *)
(*   src/get_watch_violations.py          (script "watch")                 *)
(*   src/get_xray_violations.py           (script "xray")                  *)
(*   src/get_watch_violations_updated.py  (script "updated")               *)
(* Each script validates a watch, pages through its violations, flattens   *)
(* them into a delimited intermediate file, looks up the managing users of *)
(* every distinct repository and writes an enriched final file.            *)
(*                                                                         *)
(* Python values are modelled as follows.  A text is a TLA+ string; where  *)
(* the code inspects characters (split, endswith, replace, strip, lower)   *)
(* the text is taken apart into its sequence of one-character strings.     *)
(* None and the float NaN of pandas are the two reserved texts PyNone and  *)
(* NaN, which no text of the data equals.  A JSON member of a violation    *)
(* is a record [st, v]: st says whether the key is absent, null, the empty *)
(* list [] or holds the value v.                                           *)
(***************************************************************************)
EXTENDS Integers, Sequences, FiniteSets, TLC

\* Page size of every violations request.
limit == 100

\* Largest number of pages the server's data fills.
MaxPages == 3

Scripts == {"watch", "xray", "updated"}

PyNone == "<None>"

\* The empty list where it is passed on as a value: str([]) is "[]".
PyEmptyList == "[]"
NaN == "<nan>"

Min(a, b) == IF a < b THEN a ELSE b

-----------------------------------------------------------------------------
(* Texts as character sequences.                                           *)

RECURSIVE Str(_)
\* The text whose characters are cs.
Str(cs) == IF cs = <<>> THEN "" ELSE Head(cs) \o Str(Tail(cs))

\* The character sequences of the texts the data and the servers hold.
cLibs == <<"l","i","b","s">>
cNpmCache == <<"n","p","m","-","c","a","c","h","e">>
cDocker == <<"d","o","c","k","e","r">>
cPypiCache == <<"P","y","p","i","-","C","A","C","H","E">>
cNpm == <<"n","p","m">>
cDevCache == <<"d","e","v","-","c","a","c","h","e","-","n","p","m","-","c","a","c","h","e">>
cDevRemote == <<"d","e","v","-","c","a","c","h","e","-","n","p","m">>
cDevNpm == <<"d","e","v","-","n","p","m">>
cMaven == <<"m","a","v","e","n">>
cArtDev == <<"d","e","f","a","u","l","t","/","d","e","v","-","c","a","c","h","e","-","n","p","m","-","c","a","c","h","e","/","e",".","t","g","z">>
cArtMaven == <<"d","e","f","a","u","l","t","/","m","a","v","e","n","/","f",".","p","o","m">>
cDevManage == <<"d","e","v","-","m","a","n","a","g","e">>
cMavenManage == <<"m","a","v","e","n","-","m","a","n","a","g","e">>
cArtLibs == <<"d","e","f","a","u","l","t","/","l","i","b","s","/","a",".","j","a","r">>
cArtNpm == <<"d","e","f","a","u","l","t","/","n","p","m","-","c","a","c","h","e","/","b",".","t","g","z">>
cArtDocker == <<"d","e","f","a","u","l","t","/","d","o","c","k","e","r","/","c",".","t","a","r">>
cArtPypi == <<"d","e","f","a","u","l","t","/","P","y","p","i","-","C","A","C","H","E","/","d",".","w","h","l">>
cArtNoSlash == <<"a","r","t","i","f","a","c","t",".","b","i","n">>
cLibsRead == <<"l","i","b","s","-","r","e","a","d">>
cLibsManage == <<"l","i","b","s","-","M","a","n","a","g","e">>
cLibsManage2 == <<"l","i","b","s","-","m","a","n","a","g","e">>
cNpmManage == <<"n","p","m","-","M","A","N","A","G","E">>
cDockerRead == <<"d","o","c","k","e","r","-","r","e","a","d">>
cPypiManage == <<"P","y","p","i","-","m","a","n","a","g","e">>
cCvss == <<"7",".","5","/","C","V","S","S",":","3",".","1">>
cCvssScore == <<"7",".","5">>
cNA == <<"N","A">>

KnownTexts ==
    { cLibs, cNpmCache, cDocker, cPypiCache, cNpm, cArtLibs, cArtNpm,
      cArtDocker, cArtPypi, cArtNoSlash, cLibsRead, cLibsManage,
      cLibsManage2, cNpmManage, cDockerRead, cPypiManage, cCvss,
      cCvssScore, cNA, cDevCache, cDevRemote, cDevNpm, cMaven, cArtDev,
      cArtMaven, cDevManage, cMavenManage, <<>> }

\* The characters of a text of the data.
Chars(s) == CHOOSE cs \in KnownTexts : Str(cs) = s

\* str.lower() on one character (the letters the data uses in upper case).
LowerChar(c) ==
    CASE c = "A" -> "a" [] c = "C" -> "c" [] c = "E" -> "e" [] c = "G" -> "g"
      [] c = "H" -> "h" [] c = "M" -> "m" [] c = "N" -> "n" [] c = "P" -> "p"
      [] c = "S" -> "s" [] c = "V" -> "v" [] OTHER -> c

\* str.lower()
Lower(cs) == [i \in 1..Len(cs) |-> LowerChar(cs[i])]

\* str.endswith(suffix)
EndsWith(cs, suf) ==
    /\ Len(cs) >= Len(suf)
    /\ SubSeq(cs, Len(cs) - Len(suf) + 1, Len(cs)) = suf

\* sub occurs in cs at position i
MatchAt(cs, sub, i) ==
    /\ i + Len(sub) - 1 <= Len(cs)
    /\ SubSeq(cs, i, i + Len(sub) - 1) = sub

RECURSIVE ReplaceFrom(_, _, _)
\* str.replace(sub, ""): every non-overlapping occurrence, left to right.
ReplaceFrom(cs, sub, i) ==
    IF i > Len(cs) THEN <<>>
    ELSE IF MatchAt(cs, sub, i) THEN ReplaceFrom(cs, sub, i + Len(sub))
    ELSE <<cs[i]>> \o ReplaceFrom(cs, sub, i + 1)

RECURSIVE SplitFrom(_, _, _, _)
\* str.split(sep) for a one-character sep: the pieces, as character sequences.
SplitFrom(cs, sep, i, cur) ==
    IF i > Len(cs) THEN <<cur>>
    ELSE IF cs[i] = sep THEN <<cur>> \o SplitFrom(cs, sep, i + 1, <<>>)
    ELSE SplitFrom(cs, sep, i + 1, Append(cur, cs[i]))

Split(cs, sep) == SplitFrom(cs, sep, 1, <<>>)

\* sep in text
Contains(cs, sep) == \E i \in 1..Len(cs) : cs[i] = sep

RECURSIVE StripLeft(_, _)
StripLeft(cs, ws) ==
    IF cs # <<>> /\ Head(cs) \in ws THEN StripLeft(Tail(cs), ws) ELSE cs

RECURSIVE StripRight(_, _)
StripRight(cs, ws) ==
    IF cs # <<>> /\ cs[Len(cs)] \in ws
    THEN StripRight(SubSeq(cs, 1, Len(cs) - 1), ws) ELSE cs

\* str.strip(): white space off both ends;  str.strip('"'): quotes off both ends.
Strip(cs, ws) == StripRight(StripLeft(cs, ws), ws)

RECURSIVE Join(_, _)
\* sep.join(list)
Join(sep, xs) ==
    IF xs = <<>> THEN ""
    ELSE IF Len(xs) = 1 THEN xs[1]
    ELSE xs[1] \o sep \o Join(sep, Tail(xs))

-----------------------------------------------------------------------------
(* The data the servers hold.                                              *)

\* The repositories of the violations, in the order the data cycles through.
Repos ==
    << Str(cLibs), Str(cNpmCache), Str(cDocker), Str(cPypiCache),
       Str(cDevCache), Str(cMaven) >>

\* The impacted artifact of a violation of each repository: "default/<repo>/<file>".
Artifacts ==
    << Str(cArtLibs), Str(cArtNpm), Str(cArtDocker), Str(cArtPypi),
       Str(cArtDev), Str(cArtMaven) >>

\* The optional members of a violation record.
OptionalFields ==
    { "impacted_artifacts", "applicability_details", "properties",
      "extended_information", "fix_versions", "infected_components",
      "infected_versions", "description" }

\* A record with every member present.
BaseShape == [f \in OptionalFields |-> "val"]

\* The shapes of the one odd record of the data: one member absent, null or
\* empty, every member absent, or an impacted artifact without a '/'.
Shapes ==
    {BaseShape}
    \cup { [BaseShape EXCEPT ![f] = st] :
              f \in OptionalFields, st \in {"absent", "null", "empty"} }
    \cup { [f \in OptionalFields |-> "absent"] }
    \cup { [BaseShape EXCEPT !["impacted_artifacts"] = "noslash"] }

\* A JSON member: st is "val", "absent", "null" or "empty".
Member(st, v) == [st |-> IF st = "noslash" THEN "val" ELSE st, v |-> v]

\* The k-th violation of the watch on the server.
Violation(k, shape) ==
    LET r == ((k - 1) % Len(Repos)) + 1 IN
    [ type |-> "security",
      watch_name |-> "w1",
      severity |-> "High",
      issue_id |-> "XRAY-" \o ToString(k),
      impacted_artifacts |->
          Member(shape["impacted_artifacts"],
                 IF shape["impacted_artifacts"] = "noslash"
                 THEN <<Str(cArtNoSlash)>> ELSE <<Artifacts[r]>>),
      applicability_details |->
          Member(shape["applicability_details"],
                 <<[vulnerability_id |-> "CVE-2024-1"]>>),
      properties |->
          Member(shape["properties"],
                 <<[cve |-> "CVE-2024-1", cvss_v3 |-> Str(cCvss)]>>),
      extended_information |->
          Member(shape["extended_information"],
                 [short_description |-> "summary",
                  full_description |-> "details",
                  remediation |-> "upgrade"]),
      fix_versions |-> Member(shape["fix_versions"], <<"1.0.1", "1.1.0">>),
      infected_components |->
          Member(shape["infected_components"], <<"gav://a:b">>),
      infected_versions |-> Member(shape["infected_versions"], <<"1.0.0">>),
      description |-> Member(shape["description"], "text") ]

-----------------------------------------------------------------------------
(* write_page_to_csv / process_page_to_tsv: one violation to one row.      *)

\* No exception.
NoError == ""

\* The first of the exceptions es (in evaluation order) that is one.
FirstError(es) ==
    IF \E k \in 1..Len(es) : es[k] # NoError
    THEN es[CHOOSE k \in 1..Len(es) :
                /\ es[k] # NoError
                /\ \A j \in 1..(k - 1) : es[j] = NoError]
    ELSE NoError

\* violation.get(key, [None])[0] of the watch and xray scripts: raises on
\* null (None[0]) and on an empty list ([][0]).
FirstArtifactRaises(m) ==
    CASE m.st = "null" -> "TypeError"
      [] m.st = "empty" -> "IndexError"
      [] OTHER -> NoError

FirstArtifact(m) == IF m.st = "val" THEN m.v[1] ELSE PyNone

\* split('/')[1] of a text that holds a '/', else the fallback.
RepoOf(artifact, fallback) ==
    IF artifact # PyNone /\ Contains(Chars(artifact), "/")
    THEN Str(Split(Chars(artifact), "/")[2])
    ELSE fallback

\* applicability_details[0].get('vulnerability_id'), 'N/A' for null and [].
VulnerabilityId(m) ==
    CASE m.st = "val" -> m.v[1].vulnerability_id
      [] m.st = "absent" -> PyNone
      [] OTHER -> "N/A"

\* "|".join(violation.get(key, [])) raises on null.
JoinRaises(m) == IF m.st = "null" THEN "TypeError" ELSE NoError

JoinList(m) == IF m.st = "val" THEN Join("|", m.v) ELSE ""

\* violation.get('description'): the value as it is, the empty list too.
Description(m) ==
    CASE m.st = "val" -> m.v
      [] m.st = "empty" -> PyEmptyList
      [] OTHER -> PyNone

\* x or "NA": None, "" and [] are false.
OrNA(x) == IF x \in {PyNone, "", PyEmptyList} THEN "NA" ELSE x

\* raw_cvss.split('/')[0] if '/' in raw_cvss else raw_cvss
TrimCvss(raw) ==
    IF Contains(Chars(raw), "/") THEN Str(Split(Chars(raw), "/")[1]) ELSE raw

\* src/get_watch_violations.py, write_page_to_csv, one violation.
RowWatch(v) ==
    LET ia == FirstArtifact(v.impacted_artifacts) IN
    << v.type, v.watch_name, v.severity, RepoOf(ia, PyNone), ia,
       VulnerabilityId(v.applicability_details), v.issue_id,
       JoinList(v.infected_components), JoinList(v.infected_versions),
       JoinList(v.fix_versions), Description(v.description) >>

RaisesWatch(v) ==
    FirstError(<< FirstArtifactRaises(v.impacted_artifacts),
                  JoinRaises(v.fix_versions),
                  JoinRaises(v.infected_components),
                  JoinRaises(v.infected_versions) >>)

\* src/get_xray_violations.py, process_page_to_tsv, one violation.
RowXray(v) ==
    LET ia == FirstArtifact(v.impacted_artifacts) IN
    << v.type, v.watch_name, v.severity, RepoOf(ia, PyNone), ia,
       VulnerabilityId(v.applicability_details), v.issue_id,
       Description(v.description) >>

RaisesXray(v) == FirstArtifactRaises(v.impacted_artifacts)

\* src/get_watch_violations_updated.py, write_page_to_csv, one violation.
RowUpdated(v) ==
    LET ia == IF v.impacted_artifacts.st = "val"
              THEN v.impacted_artifacts.v[1] ELSE "NA"
        props == v.properties
        cve == IF props.st = "val" THEN OrNA(props.v[1].cve) ELSE "NA"
        raw == IF props.st = "val" THEN OrNA(props.v[1].cvss_v3) ELSE "NA"
        ext == v.extended_information
    IN
    << OrNA(v.type), OrNA(v.watch_name), OrNA(v.severity), RepoOf(ia, "NA"),
       ia, cve, TrimCvss(raw),
       OrNA(JoinList(v.infected_components)),
       OrNA(JoinList(v.infected_versions)),
       OrNA(JoinList(v.fix_versions)),
       OrNA(Description(v.description)),
       IF ext.st = "val" THEN OrNA(ext.v.short_description) ELSE "NA",
       IF ext.st = "val" THEN OrNA(ext.v.full_description) ELSE "NA",
       IF ext.st = "val" THEN OrNA(ext.v.remediation) ELSE "NA" >>

RaisesUpdated(v) ==
    FirstError(<< JoinRaises(v.fix_versions),
                  JoinRaises(v.infected_components),
                  JoinRaises(v.infected_versions) >>)

\* The exception flattening the violation raises, or NoError.
FlattenRaises(s, v) ==
    CASE s = "watch" -> RaisesWatch(v)
      [] s = "xray" -> RaisesXray(v)
      [] OTHER -> RaisesUpdated(v)

FlattenRow(s, v) ==
    CASE s = "watch" -> RowWatch(v)
      [] s = "xray" -> RowXray(v)
      [] OTHER -> RowUpdated(v)

\* csv.writer.writerow: None is written as the empty field, any other value
\* as its str().
CsvWriteRow(row) == [i \in 1..Len(row) |-> IF row[i] = PyNone THEN "" ELSE row[i]]

\* The index of the first violation of the page whose flattening raises, or 0.
FirstRaising(s, vs) ==
    IF \E i \in 1..Len(vs) : FlattenRaises(s, vs[i]) # NoError
    THEN CHOOSE i \in 1..Len(vs) :
            /\ FlattenRaises(s, vs[i]) # NoError
            /\ \A j \in 1..(i - 1) : FlattenRaises(s, vs[j]) = NoError
    ELSE 0

\* The rows write_page_to_csv appends for a page: one a violation, up to the
\* first violation that raises.
PageRows(s, vs) ==
    LET stop == FirstRaising(s, vs)
        n == IF stop = 0 THEN Len(vs) ELSE stop - 1
    IN [i \in 1..n |-> CsvWriteRow(FlattenRow(s, vs[i]))]

-----------------------------------------------------------------------------
(* The servers.                                                            *)

\* Every violation of the watch, in the server's order: n records, the one
\* at oddAt of the odd shape.
ServerViolations(sv) ==
    [k \in 1..sv.n |-> Violation(k, IF k = sv.oddAt THEN sv.shape ELSE BaseShape)]

\* The violations endpoint takes pagination.offset as a page number: 0 and 1
\* both name the first page of `limit` records.
ServerPage(sv, offset) ==
    LET p == IF offset = 0 THEN 1 ELSE offset
        lo == (p - 1) * limit + 1
        hi == Min(p * limit, sv.n)
    IN SubSeq(ServerViolations(sv), lo, hi)

\* json_data.get('violations', []) of a response: "ok" is the page of the
\* data, "empty" a 200 response that carries no violations.
PageViolations(sv, kind, offset) ==
    IF kind = "ok" THEN ServerPage(sv, offset) ELSE <<>>

\* What a violations request can come back as: a page, a 200 response without
\* violations, or None (HTTP error status, connection error, timeout).
PageKinds == {"ok", "empty", "fail"}

\* GET /xray/api/v2/watches/<name>: the status code, or a connection error.
ValidateResponses == {"200", "404", "500", "error"}

\* What a lookup can come back as: "ok" is the expected JSON body; "fail" a
\* failure raised by the request, by raise_for_status or by response.json()
\* (connection error, timeout, HTTP error status, a body that is not JSON);
\* "badbody" a 200 response whose JSON is not the expected object ([] or
\* {"principals": null} for permissions, [] or members that are no texts for
\* a group), on which the code raises after response.json() has returned.
\* Every except clause of build_repo_user_map assigns "NA".
LookupKinds == {"ok", "fail", "badbody"}

\* principals.groups of the permissions of a repository, in response order.
PermGroups(repon) ==
    CASE repon = Str(cLibs) -> <<Str(cLibsRead), Str(cLibsManage), Str(cLibsManage2)>>
      [] repon = Str(cNpm) -> <<Str(cNpmManage)>>
      [] repon = Str(cDocker) -> <<Str(cDockerRead)>>
      [] repon = Str(cPypiCache) -> <<Str(cPypiManage)>>
      [] repon = Str(cDevRemote) -> <<Str(cDevManage)>>
      [] repon = Str(cMaven) -> <<Str(cMavenManage)>>
      [] OTHER -> <<>>

\* The repositories the permissions API knows; any other name is a 404.  The
\* repository cached as "dev-cache-npm-cache" is "dev-cache-npm".
PermKnown(repon) ==
    repon \in { Str(cLibs), Str(cNpm), Str(cDocker), Str(cPypiCache),
                Str(cDevRemote), Str(cMaven) }

\* The 'members' member of a group of the access API.
GroupMembers(g) ==
    CASE g = Str(cLibsManage) -> Member("val", <<"alice", "bob">>)
      [] g = Str(cLibsManage2) -> Member("val", <<"carol">>)
      [] g = Str(cNpmManage) -> Member("empty", <<>>)
      [] g = Str(cPypiManage) -> Member("val", <<"dave">>)
      [] g = Str(cDevManage) -> Member("val", <<"erin">>)
      [] OTHER -> Member("absent", <<>>)

-----------------------------------------------------------------------------
(* The header rows.                                                        *)

HeaderWatch ==
    << "Type", "WatchName", "Severity", "RepoNameOfImpactedArtifact",
       "ImpactedArtifacts", "Vulnerability_Id", "Issue_ID",
       "Infected_Components", "Infected_Versions", "Fixed_Versions",
       "Description" >>

HeaderXray ==
    << "Type", "WatchName", "Severity", "RepoNameOfImpactedArtifact",
       "ImpactedArtifacts", "Vulnerability_Id", "Issue_ID", "Description" >>

HeaderUpdated ==
    << "Type", "WatchName", "Severity", "RepoNameOfImpactedArtifact",
       "ImpactedArtifacts", "CVEID", "CVSSV3", "InfectedComponents",
       "InfectedVersions", "FixedVersions", "Description",
       "JFrogResearchSummary", "JFrogResearchDetails",
       "JFrogResearchRemediation" >>

\* Every script writes the header of the xray script.
HeaderOfXrayEverywhere(s) == HeaderXray

header(s) ==
    CASE s = "watch" -> HeaderWatch
      [] s = "xray" -> HeaderXray
      [] OTHER -> HeaderUpdated

\* The name of the enrichment column of the final file.
UsersColumn(s) == IF s = "updated" THEN "Users" ELSE "User_Assignment"

\* The position of RepoNameOfImpactedArtifact in a row.
RepoCol == 4

-----------------------------------------------------------------------------
(* pandas.                                                                 *)

\* The texts read_csv takes for a missing value (its default na_values); a
\* quoted field is looked up like an unquoted one.
NaTokens ==
    { "", "#N/A", "#N/A N/A", "#NA", "-1.#IND", "-1.#QNAN", "-NaN", "-nan",
      "1.#IND", "1.#QNAN", "<NA>", "N/A", "NA", "NULL", "NaN", "None", "n/a",
      "nan", "null" }

ReadField(x) == IF x \in NaTokens THEN NaN ELSE x

\* pd.read_csv: the data rows of the file (the first row names the columns).
ReadCsv(rows) ==
    [i \in 1..(Len(rows) - 1) |->
        [j \in 1..Len(rows[i + 1]) |-> ReadField(rows[i + 1][j])]]

\* Series.unique(): the distinct values in order of first appearance, NaN
\* among them.
Unique(xs) ==
    LET first == { k \in 1..Len(xs) : \A j \in 1..(k - 1) : xs[j] # xs[k] }
        nth(m) == CHOOSE k \in first : Cardinality({ j \in first : j < k }) = m - 1
    IN [m \in 1..Cardinality(first) |-> xs[nth(m)]]

\* Series.dropna()
DropNa(xs) == SelectSeq(xs, LAMBDA x : x # NaN)

\* unique_repos of the enrichment phase: only the updated script drops NaN.
UniqueRepos(s, df) ==
    LET col == [i \in 1..Len(df) |-> df[i][RepoCol]] IN
    IF s = "updated" THEN Unique(DropNa(col)) ELSE Unique(col)

\* pd.merge(how='left') on the repository column, then fillna('NA') on the
\* merged column: the rows of the left frame in their order, each with the
\* value of its key in the map; NaN keys and keys not in the map get 'NA'.
MergeLeft(df, map) ==
    [i \in 1..Len(df) |->
        Append(df[i], IF df[i][RepoCol] \in DOMAIN map
                      THEN map[df[i][RepoCol]] ELSE "NA")]

\* DataFrame.to_csv: NaN is written as the empty field.
ToCsv(df) ==
    [i \in 1..Len(df) |->
        [j \in 1..Len(df[i]) |-> IF df[i][j] = NaN THEN "" ELSE df[i][j]]]

-----------------------------------------------------------------------------
(* build_repo_user_map, per repository.                                    *)

WhiteSpace == {" "}
Quote == {"\""}
cCacheSuffix == <<"-","c","a","c","h","e">>
cManageSuffix == <<"-","m","a","n","a","g","e">>

\* repo.strip().strip('"')
CleanRepo(repo) == Str(Strip(Strip(Chars(repo), WhiteSpace), Quote))

\* repo_name.replace("-cache", "") if repo_name.lower().endswith("-cache")
QueryName(repo_name) ==
    LET cs == Chars(repo_name) IN
    IF EndsWith(Lower(cs), cCacheSuffix)
    THEN Str(ReplaceFrom(cs, cCacheSuffix, 1))
    ELSE repo_name

\* The last group whose lower-cased name ends with '-manage', or None.
LastManage(groups) ==
    LET hits == { i \in 1..Len(groups) :
                    EndsWith(Lower(Chars(groups[i])), cManageSuffix) }
    IN IF hits = {} THEN PyNone
       ELSE groups[CHOOSE i \in hits : \A j \in hits : i >= j]

\* The first group whose lower-cased name ends with '-manage', or None.
FirstManage(groups) ==
    LET hits == { i \in 1..Len(groups) :
                    EndsWith(Lower(Chars(groups[i])), cManageSuffix) }
    IN IF hits = {} THEN PyNone
       ELSE groups[CHOOSE i \in hits : \A j \in hits : i <= j]

\* The separator the script joins the members with.
MemberSep(s) == IF s = "xray" THEN "," ELSE "|"

\* sep.join(members) if members else "NA"
UsersOf(s, members) ==
    IF members.st = "val" /\ members.v # <<>>
    THEN Join(MemberSep(s), members.v) ELSE "NA"

\* repo_user_map[key] = value
Assign(map, key, value) ==
    [k \in (DOMAIN map) \cup {key} |-> IF k = key THEN value ELSE map[k]]

-----------------------------------------------------------------------------
(* The state of one run of a script.                                       *)

VARIABLES
    script,            \* which of the three scripts runs
    srv,               \* the violations the server holds: [n, shape, oddAt]
    pc,                \* where the run is
    exit_code,         \* the status of sys.exit, -1 while none was called
    first_page_data,   \* how the first violations request came back
    total_violations,
    total_pages,
    i,                 \* the index of the pagination loop
    violations_count,
    csv_file,          \* the intermediate file: [exists, rows]
    final_file,        \* the enriched file: [exists, rows]
    unique_repos,
    idx,               \* the position of build_repo_user_map in unique_repos
    manage_group,
    repo_user_map,
    raised,            \* the exception that ended the run, NoError if none
    log                \* every request sent and every file operation, in order

vars ==
    << script, srv, pc, exit_code, first_page_data, total_violations,
       total_pages, i, violations_count, csv_file, final_file, unique_repos,
       idx, manage_group, repo_user_map, raised, log >>

NoFile == [exists |-> FALSE, rows |-> <<>>]

EmptyMap == [k \in {} |-> ""]

\* One entry of the log.
Event(op, arg, offset, resp) ==
    [op |-> op, arg |-> arg, offset |-> offset, resp |-> resp]

\* Largest number of violations in a data set that holds an odd record.
MaxOdd == 2

\* Largest number of lookups of one run that fail for a passing reason (a
\* repository the permissions API does not know fails every time).
MaxFailures == 1

\* The numbers of violations the server may hold: none, one, a whole number
\* of pages and one more than a whole number of pages.
TotalChoices ==
    {0, 1} \cup { p * limit + d : p \in 1..(MaxPages - 1), d \in {0, 1} }

\* A data set of two pages whose first record has no impacted_artifacts.
OddPaged ==
    { [n |-> limit + 1,
       shape |-> [BaseShape EXCEPT !["impacted_artifacts"] = "absent"],
       oddAt |-> 1] }

\* The data sets: any total of regular records, a few records of which one
\* is odd, or two pages with an odd record on the first.
DataSets ==
    { [n |-> n, shape |-> BaseShape, oddAt |-> 0] : n \in TotalChoices }
    \cup { [n |-> n, shape |-> sh, oddAt |-> k] :
              n \in 1..MaxOdd, k \in 1..MaxOdd, sh \in Shapes \ {BaseShape} }
    \cup OddPaged

Init ==
    /\ script \in Scripts
    /\ srv \in { d \in DataSets : d.oddAt <= d.n }
    /\ pc = "main"
    /\ exit_code = -1
    /\ first_page_data = "none"
    /\ total_violations = 0
    /\ total_pages = 0
    /\ i = 0
    /\ violations_count = 0
    /\ csv_file = NoFile
    /\ final_file = NoFile
    /\ unique_repos = <<>>
    /\ idx = 0
    /\ manage_group = PyNone
    /\ repo_user_map = EmptyMap
    /\ raised = NoError
    /\ log = <<>>

-----------------------------------------------------------------------------
(* __main__ and validate_watch.                                            *)

\* A validation that only stops on 404.
ValidationStopsOn404Only(resp) == resp # "404"

\* validate_watch returns (True) on status 200 and on nothing else.
ValidationPasses(resp) == resp = "200"

\* validate_watch: True on 200, sys.exit otherwise (a connection error too);
\* then __main__ calls get_xray_watch_violations.
ValidateWatch ==
    /\ pc = "main"
    /\ \E resp \in ValidateResponses :
          /\ log' = Append(log, Event("validate", "w1", 0, resp))
          /\ IF ValidationPasses(resp)
             THEN pc' = "validated" /\ exit_code' = exit_code
             ELSE pc' = "exited" /\ exit_code' = 1
    /\ UNCHANGED << script, srv, first_page_data, total_violations,
                    total_pages, i, violations_count, csv_file, final_file,
                    unique_repos, idx, manage_group, repo_user_map, raised >>

-----------------------------------------------------------------------------
(* get_xray_watch_violations: header, first page, page count.              *)

\* A page count that rounds down and adds one.
TotalPagesRoundedDown(total) == total \div limit + 1

\* (total_violations + limit - 1) // limit
TotalPages(total) == (total + limit - 1) \div limit

\* The header row written to a fresh intermediate file.
WriteHeader(s) == [exists |-> TRUE, rows |-> <<header(s)>>]

\* Whether the script writes the header before the first request (watch,
\* updated) or after the page count is known (xray).
HeaderFirst(s) == s # "xray"

\* The first request (offset 0) and what follows it up to the loop.
FetchFirstPage ==
    /\ pc = "validated"
    /\ \E kind \in (IF srv.n = 0 THEN PageKinds \ {"empty"} ELSE PageKinds) :
          LET req == Event("violations", "w1", 0, kind)
              hdr == Event("write_header", "", 0, "")
              total == IF kind = "fail" THEN 0 ELSE srv.n
              goes == kind # "fail" /\ total # 0
          IN
          /\ first_page_data' = kind
          /\ total_violations' = total
          /\ total_pages' = IF goes THEN TotalPages(total) ELSE 0
          /\ pc' = IF goes THEN "loop" ELSE "returned"
          /\ csv_file' = IF HeaderFirst(script) \/ goes
                         THEN WriteHeader(script) ELSE csv_file
          /\ log' = IF HeaderFirst(script) THEN log \o <<hdr, req>>
                    ELSE IF goes THEN log \o <<req, hdr>>
                    ELSE Append(log, req)
    /\ UNCHANGED << script, srv, exit_code, i, violations_count, final_file,
                    unique_repos, idx, manage_group, repo_user_map, raised >>

-----------------------------------------------------------------------------
(* The pagination loop: one iteration.                                     *)

\* An offset that is the loop index.
PageOffsetIsIndex(k) == k

\* The offset the loop requests page k + 1 with.
PageOffset(k) == k + 1

\* A loop without the early stop.
StopsEarlyNever(s, array_length, k, pages) == FALSE

\* The early stop of the watch and xray scripts on a page without rows.
StopsEarly(s, array_length, k, pages) ==
    s # "updated" /\ array_length = 0 /\ k < pages - 1

\* What the loop does with the page of iteration i that came back as kind:
\* write_page_to_csv, the count, the early stop.
ProcessPage(kind, offset, req) ==
    LET vs == PageViolations(srv, kind, offset)
        rows == PageRows(script, vs)
        stop == FirstRaising(script, vs)
        err == IF stop = 0 THEN NoError ELSE FlattenRaises(script, vs[stop])
        wr == Event("append_rows", err, Len(rows), ToString(Len(vs)))
    IN
    /\ csv_file' = [csv_file EXCEPT !.rows = @ \o rows]
    /\ log' = log \o req \o <<wr>>
    /\ raised' = err
    /\ IF err # NoError
       THEN /\ pc' = "crashed"
            /\ UNCHANGED << i, violations_count >>
       ELSE /\ violations_count' = violations_count + Len(rows)
            /\ IF StopsEarly(script, Len(rows), i, total_pages)
                  \/ i + 1 >= total_pages
               THEN pc' = "enrich" /\ i' = i
               ELSE pc' = "loop" /\ i' = i + 1

\* Every iteration requests its page, the first one too.
ReusesNothing(k) == FALSE

\* if i == 0: page_data = first_page_data
ReusesFirstPage(k) == k = 0

\* Iteration 0 reuses the first response.
LoopFirstPage ==
    /\ pc = "loop"
    /\ ReusesFirstPage(i)
    /\ ProcessPage(first_page_data, 0, <<>>)
    /\ UNCHANGED << script, srv, exit_code, first_page_data, total_violations,
                    total_pages, final_file, unique_repos, idx, manage_group,
                    repo_user_map >>

\* if not page_data: break
BreaksOn(page_data) == page_data = "fail"

\* Iteration i > 0 requests page i + 1; None ends the loop.
LoopNextPage ==
    /\ pc = "loop"
    /\ ~ReusesFirstPage(i)
    /\ i < total_pages
    /\ \E kind \in PageKinds :
          LET req == Event("violations", "w1", PageOffset(i), kind) IN
          IF BreaksOn(kind)
          THEN /\ pc' = "enrich"
               /\ log' = Append(log, req)
               /\ UNCHANGED << i, violations_count, csv_file, raised >>
          ELSE ProcessPage(kind, PageOffset(i), <<req>>)
    /\ UNCHANGED << script, srv, exit_code, first_page_data, total_violations,
                    total_pages, final_file, unique_repos, idx, manage_group,
                    repo_user_map >>

-----------------------------------------------------------------------------
(* The enrichment phase.                                                   *)

\* violations_df: the intermediate file as read_csv returns it.  The file is
\* not written between the read and the merge.
violations_df == ReadCsv(csv_file.rows)

\* pd.read_csv of the intermediate file and the distinct repository names.
ReadIntermediate ==
    /\ pc = "enrich"
    /\ unique_repos' = UniqueRepos(script, violations_df)
    /\ idx' = 1
    /\ pc' = "build"
    /\ log' = Append(log, Event("read_csv", "", Len(csv_file.rows) - 1, ""))
    /\ UNCHANGED << script, srv, exit_code, first_page_data, total_violations,
                    total_pages, i, violations_count, csv_file, final_file,
                    manage_group, repo_user_map, raised >>

\* A loop that passes over the repository after the one at k.
NextRepoSkipsOne(k) == k + 2

\* Where the loop of build_repo_user_map goes after the repository at k.
NextRepo(k) == k + 1

\* The lookups of the run so far that failed for a passing reason.
PassingFailures ==
    Cardinality({ k \in 1..Len(log) :
                    /\ log[k].op \in {"permissions", "groups"}
                    /\ log[k].resp # "ok"
                    /\ (log[k].op = "permissions" => PermKnown(log[k].arg)) })

\* How a lookup can come back now.
LookupResponses(known) ==
    IF ~known THEN {"fail"}
    ELSE IF PassingFailures < MaxFailures THEN LookupKinds
    ELSE {"ok"}

\* repo.strip() on NaN (a float) raises outside the try of the watch and xray
\* scripts; the updated script dropped NaN and takes str(repo).
LookupRaises ==
    /\ pc = "build"
    /\ idx <= Len(unique_repos)
    /\ unique_repos[idx] = NaN
    /\ pc' = "crashed"
    /\ raised' = "AttributeError"
    /\ UNCHANGED << script, srv, exit_code, first_page_data, total_violations,
                    total_pages, i, violations_count, csv_file, final_file,
                    unique_repos, idx, manage_group, repo_user_map, log >>

\* The permissions request of the repository at idx and the search for the
\* manage group.
LookupPermissions ==
    /\ pc = "build"
    /\ idx <= Len(unique_repos)
    /\ unique_repos[idx] # NaN
    /\ LET repo_name == CleanRepo(unique_repos[idx])
           repon == QueryName(repo_name)
           group == FirstManage(PermGroups(repon))
       IN
       \E resp \in LookupResponses(PermKnown(repon)) :
          /\ log' = Append(log, Event("permissions", repon, idx, resp))
          /\ manage_group' = CASE resp = "ok" -> group
                                [] resp = "badbody" -> PyNone
                                [] OTHER -> manage_group
          /\ IF resp = "ok" /\ group # PyNone
             THEN /\ pc' = "group"
                  /\ UNCHANGED << idx, repo_user_map >>
             ELSE /\ repo_user_map' = Assign(repo_user_map, repo_name, "NA")
                  /\ idx' = NextRepo(idx)
                  /\ UNCHANGED pc
    /\ UNCHANGED << script, srv, exit_code, first_page_data, total_violations,
                    total_pages, i, violations_count, csv_file, final_file,
                    unique_repos, raised >>

\* The group-membership request of the manage group found.
LookupGroup ==
    /\ pc = "group"
    /\ LET repo_name == CleanRepo(unique_repos[idx]) IN
       \E resp \in LookupResponses(TRUE) :
          /\ log' = Append(log, Event("groups", manage_group, idx, resp))
          /\ repo_user_map' =
                Assign(repo_user_map, repo_name,
                       IF resp = "ok"
                       THEN UsersOf(script, GroupMembers(manage_group))
                       ELSE "NA")
          /\ idx' = NextRepo(idx)
          /\ pc' = "build"
    /\ UNCHANGED << script, srv, exit_code, first_page_data, total_violations,
                    total_pages, i, violations_count, csv_file, final_file,
                    unique_repos, manage_group, raised >>

\* The rows of the final file: the columns of the intermediate file and the
\* enrichment column, then the merged rows.
FinalRows(s, rows, map) ==
    <<Append(rows[1], UsersColumn(s))>> \o ToCsv(MergeLeft(ReadCsv(rows), map))

\* No script removes the intermediate file.
RemovesNever(s) == FALSE

\* Whether the script removes the intermediate file after the final write.
RemovesIntermediate(s) == s # "xray"

\* build_repo_user_map returned: merge, fillna, to_csv.
WriteFinal ==
    /\ pc = "build"
    /\ idx > Len(unique_repos)
    /\ final_file' = [exists |-> TRUE,
                      rows |-> FinalRows(script, csv_file.rows, repo_user_map)]
    /\ log' = Append(log, Event("write_final", "", Len(csv_file.rows) - 1, ""))
    /\ pc' = IF RemovesIntermediate(script) THEN "written" ELSE "done"
    /\ UNCHANGED << script, srv, exit_code, first_page_data, total_violations,
                    total_pages, i, violations_count, csv_file, unique_repos,
                    idx, manage_group, repo_user_map, raised >>

\* if os.path.exists(CSV_FILE): os.remove(CSV_FILE)
RemoveIntermediate ==
    /\ pc = "written"
    /\ csv_file' = NoFile
    /\ log' = IF csv_file.exists
              THEN Append(log, Event("remove", "", 0, "")) ELSE log
    /\ pc' = "done"
    /\ UNCHANGED << script, srv, exit_code, first_page_data, total_violations,
                    total_pages, i, violations_count, final_file, unique_repos,
                    idx, manage_group, repo_user_map, raised >>

Next ==
    \/ ValidateWatch
    \/ FetchFirstPage
    \/ LoopFirstPage
    \/ LoopNextPage
    \/ ReadIntermediate
    \/ LookupRaises
    \/ LookupPermissions
    \/ LookupGroup
    \/ WriteFinal
    \/ RemoveIntermediate

Spec == Init /\ [][Next]_vars

\* The run has ended.
Ended == pc \in {"exited", "returned", "crashed", "done"}

TypeOK ==
    /\ script \in Scripts
    /\ pc \in {"main", "validated", "exited", "returned", "loop", "crashed",
               "enrich", "build", "group", "written", "done"}
    /\ exit_code \in {-1, 1}
    /\ i \in 0..(MaxPages - 1)
    /\ idx \in 0..(Len(Repos) + 1)
    /\ raised \in {NoError, "TypeError", "IndexError", "AttributeError"}

-----------------------------------------------------------------------------
(* Properties.                                                             *)

\* The data rows of a file (every row after the header).
DataRows(f) == SubSeq(f.rows, 2, Len(f.rows))

\* The positions of the log that hold an event of one of the operations.
EventsOf(ops) == { k \in 1..Len(log) : log[k].op \in ops }

\* Every violations request of the run came back with its page.
AllPagesSucceeded ==
    \A k \in EventsOf({"violations"}) : log[k].resp = "ok"

\* The rows of every violation of the watch, in the server's order.
ExpectedRows ==
    LET all == ServerViolations(srv) IN
    [k \in 1..srv.n |-> CsvWriteRow(FlattenRow(script, all[k]))]

\* C1  Pagination completeness: when the first page reports N > 0 violations
\* and every page request comes back with its page, then at the end of the
\* pagination loop the intermediate file holds the row of each of the N
\* violations exactly once, in the server's order.
C1_PaginationComplete ==
    (pc = "enrich" /\ total_violations > 0 /\ AllPagesSucceeded)
        => /\ Len(DataRows(csv_file)) = total_violations
           /\ DataRows(csv_file) = ExpectedRows

C1_Witness ==
    /\ pc = "enrich"
    /\ AllPagesSucceeded
    /\ total_pages > 2
    /\ Len(DataRows(csv_file)) = 2 * limit + 1
    /\ script = "watch"

\* C9  Validation gate: nothing but the validation request happens (no other
\* request, no file written) unless the validation came back with status 200;
\* on any other status or a connection error the process exits with a
\* non-zero status right after the validation.
C9_ValidationGate ==
    /\ ((\E k \in 1..Len(log) : log[k].op # "validate")
        \/ csv_file.exists \/ final_file.exists)
            => (log[1].op = "validate" /\ log[1].resp = "200")
    /\ \A k \in EventsOf({"validate"}) :
          log[k].resp # "200"
              => pc = "exited" /\ exit_code = 1 /\ exit_code # 0 /\ Len(log) = 1

C9_Witness ==
    /\ pc = "exited"
    /\ exit_code = 1
    /\ log = <<Event("validate", "w1", 0, "error")>>

\* The violations requests sent after the first one.
LaterRequests == { k \in EventsOf({"violations"}) : log[k].offset # 0 }

\* The iterations of the pagination loop begun so far: each one either
\* writes a page or ends on a failed request.
Iterations ==
    Cardinality(EventsOf({"append_rows"}))
    + Cardinality({ k \in LaterRequests : log[k].resp = "fail" })

\* C10  Page count and termination: for a total of at least 1 the page count
\* is the least number of pages of `limit` records that covers the total; the
\* loop runs at most total_pages iterations and sends at most total_pages - 1
\* requests after the first, whatever the server returns.
C10_PageCountAndTermination ==
    /\ (pc \notin {"main", "validated"} /\ total_violations >= 1)
          => /\ total_pages >= 1
             /\ total_pages * limit >= total_violations
             /\ (total_pages - 1) * limit < total_violations
    /\ (total_pages >= 1 => i < total_pages)
    /\ (total_pages = 0 => i = 0)
    /\ Iterations <= total_pages
    /\ total_pages >= 1 => Cardinality(LaterRequests) <= total_pages - 1
    /\ total_pages = 0 => LaterRequests = {}

C10_Witness ==
    /\ pc = "enrich"
    /\ total_violations = 2 * limit
    /\ total_pages = 2
    /\ i = 1
    /\ Cardinality(LaterRequests) = 1

\* A lookup of the repository at position j of unique_repos failed.
FailedLookup(j) ==
    \E k \in EventsOf({"permissions", "groups"}) :
        log[k].offset = j /\ log[k].resp # "ok"

\* The repository at position j was looked up.
LookedUp(j) == \E k \in EventsOf({"permissions"}) : log[k].offset = j

\* The value of a repository when neither of its lookups fails.
ValueWithoutFailure(repo) ==
    LET g == FirstManage(PermGroups(QueryName(CleanRepo(repo)))) IN
    IF g = PyNone THEN "NA" ELSE UsersOf(script, GroupMembers(g))

\* The keys of the repositories build_repo_user_map is done with.
KeysDone == { CleanRepo(unique_repos[j]) : j \in 1..Min(idx - 1, Len(unique_repos)) }

\* C2  Per-repo independent failure handling: a failed lookup sets the value
\* of its repository to "NA" and changes nothing else; the loop goes on, every
\* other repository is looked up and gets the value it has without that
\* failure, and the returned map has an entry for every input repository.
C2_IndependentFailure ==
    (pc \in {"build", "group", "written", "done"})
        => /\ \A j \in 1..Len(unique_repos) :
                j < idx =>
                   /\ LookedUp(j)
                   /\ CleanRepo(unique_repos[j]) \in DOMAIN repo_user_map
                   /\ repo_user_map[CleanRepo(unique_repos[j])] =
                         IF FailedLookup(j) THEN "NA"
                         ELSE ValueWithoutFailure(unique_repos[j])
           /\ DOMAIN repo_user_map = KeysDone
           /\ idx <= Len(unique_repos) + 1
           /\ (pc \in {"written", "done"} => idx = Len(unique_repos) + 1)

C2_Witness ==
    /\ pc = "done"
    /\ script = "watch"
    /\ Len(unique_repos) = Len(Repos)
    /\ FailedLookup(1)
    /\ repo_user_map[Str(cLibs)] = "NA"
    /\ repo_user_map[Str(cPypiCache)] = "dave"
    /\ DOMAIN repo_user_map = { Repos[k] : k \in 1..Len(Repos) }

\* C3  Left join preserves the original rows: the final file has the data
\* rows of the intermediate file, as many and in the same order, each followed
\* by the value the map holds for the row's repository, "NA" when it holds
\* none.
C3_LeftJoinPreservesRows ==
    (final_file.exists /\ csv_file.exists)
        => /\ Len(final_file.rows) = Len(csv_file.rows)
           /\ \A r \in 2..Len(csv_file.rows) :
                 LET n == Len(csv_file.rows[r])
                     key == csv_file.rows[r][RepoCol]
                 IN /\ Len(final_file.rows[r]) = n + 1
                    /\ SubSeq(final_file.rows[r], 1, n) = csv_file.rows[r]
                    /\ final_file.rows[r][n + 1] =
                          IF key \in DOMAIN repo_user_map
                          THEN repo_user_map[key] ELSE "NA"

\* The repository names of the rows of the intermediate file (a missing name
\* is none).
RepoNamesInFile ==
    { csv_file.rows[r][RepoCol] : r \in 2..Len(csv_file.rows) } \ NaTokens

\* The requests of an API sent for a repository name.
RequestsFor(api, name) ==
    { k \in EventsOf({api}) : unique_repos[log[k].offset] = name }

\* C4  Deduplication: in a run that has read the intermediate file and has
\* ended its lookups (the final file is written, or the run has ended), the
\* permissions API was requested exactly once for each distinct repository
\* name of the rows of the intermediate file, however many rows share the
\* name, and the group-membership API at most once per name.
C4_ExactlyOncePerName ==
    (csv_file.exists /\ EventsOf({"read_csv"}) # {}
        /\ pc \in {"written", "done", "crashed"})
      => \A name \in RepoNamesInFile :
            /\ Cardinality(RequestsFor("permissions", name)) = 1
            /\ Cardinality(RequestsFor("groups", name)) <= 1

\* C5  Value of a successful lookup: when both lookups of a repository
\* succeed it maps to the members of the manage group joined with '|' in
\* response order, "NA" when the members are empty or absent; never "".
C5_SuccessfulLookupValue ==
    \A k \in EventsOf({"groups"}) :
        (log[k].resp = "ok" /\ log[k].offset < idx)
            => LET value == repo_user_map[CleanRepo(unique_repos[log[k].offset])]
                   members == GroupMembers(log[k].arg)
               IN /\ value # ""
                  /\ value = IF members.st = "val" /\ members.v # <<>>
                             THEN Join("|", members.v) ELSE "NA"

\* C6 as stated: every run that writes the final file ends without the
\* intermediate file.
C6_IntermediateGoneAtEnd ==
    (Ended /\ final_file.exists) => ~csv_file.exists

\* C6  Final write then clean-up, amended: the watch and updated scripts
\* remove the intermediate file, after the final file is written, and end
\* without it; the xray script never removes it, so its runs that write the
\* final file end with both files.
C6_FinalWriteThenCleanup ==
    /\ \A k \in EventsOf({"remove"}) :
          /\ \E j \in EventsOf({"write_final"}) : j < k
          /\ final_file.exists
    /\ (Ended /\ final_file.exists)
          => (csv_file.exists <=> script = "xray")
    /\ script = "xray" => EventsOf({"remove"}) = {}
    /\ (~csv_file.exists /\ pc \notin {"main", "validated", "exited", "returned"})
          => final_file.exists

C6_Witness ==
    /\ pc = "done"
    /\ script = "updated"
    /\ final_file.exists
    /\ ~csv_file.exists
    /\ EventsOf({"remove"}) # {}
    /\ Len(final_file.rows) > limit

\* C7  Defensive flattening: write_page_to_csv / process_page_to_tsv writes
\* one row per violation of the page and never raises, whichever optional
\* members of a violation are absent, null or empty.
C7_DefensiveFlattening ==
    /\ raised \notin {"TypeError", "IndexError"}
    /\ \A k \in EventsOf({"append_rows"}) :
          /\ log[k].arg = NoError
          /\ ToString(log[k].offset) = log[k].resp

\* What a column of the output holds, whatever the script names it.
ColumnKind(name) ==
    CASE name \in {"Vulnerability_Id", "CVEID"} -> "CVE/vulnerability id"
      [] name \in {"Issue_ID", "CVSSV3"} -> "CVSS/issue id"
      [] name \in {"Infected_Components", "InfectedComponents"} -> "InfectedComponents"
      [] name \in {"Infected_Versions", "InfectedVersions"} -> "InfectedVersions"
      [] name \in {"Fixed_Versions", "FixedVersions"} -> "FixedVersions"
      [] name \in {"User_Assignment", "Users"} -> "enrichment"
      [] OTHER -> name

ColumnKinds(row) == [j \in 1..Len(row) |-> ColumnKind(row[j])]

\* The eleven columns every script is said to write.
ElevenColumns ==
    << "Type", "WatchName", "Severity", "RepoNameOfImpactedArtifact",
       "ImpactedArtifacts", "CVE/vulnerability id", "CVSS/issue id",
       "InfectedComponents", "InfectedVersions", "FixedVersions",
       "Description" >>

\* The three research columns of the updated script.
ResearchColumns ==
    << "JFrogResearchSummary", "JFrogResearchDetails",
       "JFrogResearchRemediation" >>

\* The eight columns of the xray script: no infected components, infected
\* versions or fixed versions.
EightColumns ==
    << "Type", "WatchName", "Severity", "RepoNameOfImpactedArtifact",
       "ImpactedArtifacts", "CVE/vulnerability id", "CVSS/issue id",
       "Description" >>

\* The values a column of a data row of the intermediate file can hold for
\* the data of the servers: the value of its member of the violation, or the
\* fallback of a missing one.
ColumnValues(kind) ==
    CASE kind = "Type" -> {"security"}
      [] kind = "WatchName" -> {"w1"}
      [] kind = "Severity" -> {"High"}
      [] kind = "RepoNameOfImpactedArtifact" ->
            { Repos[k] : k \in 1..Len(Repos) } \cup {"", "NA"}
      [] kind = "ImpactedArtifacts" ->
            { Artifacts[k] : k \in 1..Len(Artifacts) }
                \cup {Str(cArtNoSlash), "", "NA"}
      [] kind = "CVE/vulnerability id" -> {"CVE-2024-1", "N/A", "", "NA"}
      [] kind = "CVSS/issue id" ->
            { "XRAY-" \o ToString(k) : k \in 1..srv.n }
                \cup {Str(cCvssScore), "NA"}
      [] kind = "InfectedComponents" -> {"gav://a:b", "", "NA"}
      [] kind = "InfectedVersions" -> {"1.0.0", "", "NA"}
      [] kind = "FixedVersions" -> {"1.0.1|1.1.0", "", "NA"}
      [] kind = "Description" -> {"text", "", "NA", PyEmptyList}
      [] kind = "JFrogResearchSummary" -> {"summary", "NA"}
      [] kind = "JFrogResearchDetails" -> {"details", "NA"}
      [] kind = "JFrogResearchRemediation" -> {"upgrade", "NA"}
      [] OTHER -> {}

\* The header is written once, before any data row; every data row has a
\* field for each column of the header, in the header's order (looked at
\* where the loop has just written: no later step writes the file); the final
\* file has the columns of the intermediate file and one enrichment column.
WellFormedFiles ==
    /\ csv_file.exists
          => /\ Cardinality(EventsOf({"write_header"})) = 1
             /\ \A k \in EventsOf({"append_rows"}) :
                   \E h \in EventsOf({"write_header"}) : h < k
             /\ csv_file.rows[1] = header(script)
             /\ \A r \in 2..Len(csv_file.rows) :
                   /\ Len(csv_file.rows[r]) = Len(csv_file.rows[1])
                   /\ csv_file.rows[r] # csv_file.rows[1]
             /\ pc \in {"loop", "enrich", "crashed"}
                   => \A j \in 1..Len(csv_file.rows[1]) :
                         LET values == ColumnValues(ColumnKind(csv_file.rows[1][j]))
                         IN \A r \in 2..Len(csv_file.rows) :
                               csv_file.rows[r][j] \in values
    /\ ~csv_file.exists => EventsOf({"append_rows"}) = {}
                              \/ EventsOf({"remove"}) # {}
    /\ final_file.exists
          => /\ ColumnKinds(final_file.rows[1])
                   = Append(ColumnKinds(header(script)), "enrichment")
             /\ \A r \in 2..Len(final_file.rows) :
                   Len(final_file.rows[r]) = Len(final_file.rows[1])

\* C8 as stated: the columns are the eleven, and the three research columns
\* in the updated script.
C8_ElevenColumnsEverywhere ==
    csv_file.exists
        => ColumnKinds(csv_file.rows[1]) =
              IF script = "updated" THEN ElevenColumns \o ResearchColumns
              ELSE ElevenColumns

\* C8  Output format, amended: the header row is written to the intermediate
\* file once and before any data row, every data row has as many fields as
\* the header and in its order; the columns are the eleven in the watch
\* script, the eleven and three research columns in the updated script, and
\* eight in the xray script (the eleven without InfectedComponents,
\* InfectedVersions and FixedVersions); the final file has these columns and
\* one enrichment column after them.
C8_OutputFormat ==
    /\ WellFormedFiles
    /\ csv_file.exists
          => ColumnKinds(csv_file.rows[1]) =
                CASE script = "watch" -> ElevenColumns
                  [] script = "updated" -> ElevenColumns \o ResearchColumns
                  [] OTHER -> EightColumns

C8_Witness ==
    /\ script = "xray"
    /\ pc = "done"
    /\ csv_file.exists
    /\ final_file.exists
    /\ Len(csv_file.rows) > limit
    /\ Len(final_file.rows[2]) = Len(EightColumns) + 1

-----------------------------------------------------------------------------
(* Requests of the pagination loop.                                        *)

\* The violations requests of the run, in the order sent.
ViolationRequests == SelectSeq(log, LAMBDA e : e.op = "violations")

\* The offsets of the violations requests, in the order sent.
OffsetsSent == [k \in 1..Len(ViolationRequests) |-> ViolationRequests[k].offset]

\* The number of violations requests sent before position k of the log.
RequestsBefore(k) ==
    Cardinality({ j \in EventsOf({"violations"}) : j < k })

\* The positions of the log where a page was written, in increasing order.
PageWrites == EventsOf({"append_rows"})

\* C11  Request offsets: the first violations request has offset 0 and no
\* other has; the response to it is the page of iteration 0, written with no
\* second request sent; the k-th request (k >= 2) has offset k, so the
\* offsets increase, none is sent twice and none exceeds total_pages; and
\* when every request came back with its page and the loop has ended, the
\* offsets sent are exactly 0, 2, 3, ..., total_pages.
C11_RequestOffsets ==
    /\ \A k \in 1..Len(OffsetsSent) :
          OffsetsSent[k] = IF k = 1 THEN 0 ELSE k
    /\ Len(OffsetsSent) >= 2 => Len(OffsetsSent) <= total_pages
    /\ \A k \in PageWrites :
          RequestsBefore(k) = Cardinality({ j \in PageWrites : j <= k })
    /\ (pc \in {"enrich", "build", "group", "written", "done"}
            /\ AllPagesSucceeded)
          => { OffsetsSent[k] : k \in 1..Len(OffsetsSent) }
                = {0} \cup 2..total_pages

C11_Witness ==
    /\ pc = "enrich"
    /\ script = "xray"
    /\ AllPagesSucceeded
    /\ total_pages = 3
    /\ OffsetsSent = <<0, 2, 3>>
    /\ Cardinality(PageWrites) = 3

\* The positions of the log where a violations request after the first came
\* back as None.
FailedLater == { k \in LaterRequests : log[k].resp = "fail" }

\* The number of rows the pages written before position k of the log hold.
RECURSIVE RowsWrittenBefore(_)
RowsWrittenBefore(k) ==
    IF k <= 1 THEN 0
    ELSE RowsWrittenBefore(k - 1)
         + (IF log[k - 1].op = "append_rows" THEN log[k - 1].offset ELSE 0)

\* The enrichment phase has a step to take that does not raise: the guard of
\* ReadIntermediate, LookupPermissions, LookupGroup, WriteFinal or
\* RemoveIntermediate holds.
NextStepReady ==
    \/ pc = "enrich"
    \/ /\ pc = "build"
       /\ idx <= Len(unique_repos)
       /\ unique_repos[idx] # NaN
       /\ LookupResponses(PermKnown(QueryName(CleanRepo(unique_repos[idx])))) # {}
    \/ pc = "build" /\ idx > Len(unique_repos)
    \/ pc = "group" /\ LookupResponses(TRUE) # {}
    \/ pc = "written"

\* C12  Page failure in mid-run: once a violations request after the first
\* has failed, no violations request follows it (no retry, no later page) and
\* no page is written; the intermediate file keeps the rows of the pages
\* written before, which are the first rows of the server's list when those
\* pages came back whole; the run does not end there: it is in the enrichment
\* phase with no exception raised, can always take its next step, and ends
\* only with the final file written, one row for each of the partial rows.
C12_PageFailureMidRun ==
    \A f \in FailedLater :
       /\ \A k \in EventsOf({"violations", "append_rows"}) : k <= f
       /\ Cardinality(FailedLater) = 1
       /\ log[f].offset = i + 1
       /\ raised = NoError
       /\ pc \in {"enrich", "build", "group", "written", "done"}
       /\ pc # "done" => NextStepReady
       /\ csv_file.exists
             => Len(DataRows(csv_file)) = RowsWrittenBefore(f)
       /\ (pc = "enrich"
              /\ \A k \in EventsOf({"violations"}) : k < f => log[k].resp = "ok")
             => DataRows(csv_file)
                   = SubSeq(ExpectedRows, 1, (log[f].offset - 1) * limit)
       /\ pc \in {"written", "done"}
             => /\ final_file.exists
                /\ Len(final_file.rows) = 1 + RowsWrittenBefore(f)

\* The iteration of the pagination loop that wrote the page at position k of
\* the log.
IterationOf(k) == Cardinality({ j \in PageWrites : j < k })

\* The positions of the log where a page without violations was written.
EmptyPages == { k \in PageWrites : log[k].offset = 0 /\ log[k].resp = "0" }

\* The enrichment phase has read a row without a repository name and the
\* script does not drop it: build_repo_user_map of the watch and xray
\* scripts raises on it.
MissingRepoRead == \E j \in 1..Len(unique_repos) : unique_repos[j] = NaN

\* C13  Early stop on an empty page: in the watch and xray scripts, a page
\* of an iteration before the last one that yields no violations ends the
\* pagination: no violations request and no page follow it and the loop index
\* stays at that iteration; an empty page of the last iteration comes after
\* the request of every page, as any last page does; in both cases the run
\* goes on to the enrichment phase: it does not return or exit, no exception
\* of the flattening is raised, and unless a row without a repository name
\* was read it can take its next step and ends with the final file written;
\* with such a row it ends in build_repo_user_map, after the file was read.
C13_EarlyStopOnEmptyPage ==
    script # "updated" =>
       \A k \in EmptyPages :
          /\ IterationOf(k) < total_pages - 1
                => /\ \A j \in EventsOf({"violations", "append_rows"}) : j <= k
                   /\ i = IterationOf(k)
                   /\ Cardinality(EventsOf({"violations"})) = IterationOf(k) + 1
          /\ IterationOf(k) = total_pages - 1
                => /\ i = total_pages - 1
                   /\ Cardinality(EventsOf({"violations"})) = total_pages
          /\ IterationOf(k) <= total_pages - 1
          /\ pc \in {"enrich", "build", "group", "written", "done", "crashed"}
          /\ raised \in {NoError, "AttributeError"}
          /\ pc = "crashed"
                => /\ raised = "AttributeError"
                   /\ MissingRepoRead
                   /\ EventsOf({"read_csv"}) # {}
          /\ ~MissingRepoRead
                => /\ raised = NoError
                   /\ pc # "crashed"
                   /\ pc # "done" => NextStepReady
          /\ pc \in {"written", "done"} => final_file.exists

C13_Witness ==
    /\ script = "watch"
    /\ pc = "done"
    /\ total_pages = 3
    /\ OffsetsSent = <<0, 2>>
    /\ \E k \in EmptyPages : IterationOf(k) = 1
    /\ \A k \in EventsOf({"violations"}) : log[k].resp # "fail"
    /\ final_file.exists
    /\ Len(final_file.rows) = 1 + limit

\* The name with its last Len(suf) characters removed.
WithoutSuffix(cs, suf) == SubSeq(cs, 1, Len(cs) - Len(suf))

\* C14  Cache-suffix handling: every permissions request is sent under the
\* cleaned repository name without its trailing "-cache" when the name ends
\* with "-cache" in any letter case, every other character unchanged, and
\* under the unchanged name otherwise; the result is stored under the
\* original name.
C14_CacheSuffixOnly ==
    \A k \in EventsOf({"permissions"}) :
       LET repo_name == CleanRepo(unique_repos[log[k].offset])
           cs == Chars(repo_name)
       IN /\ log[k].arg =
                IF EndsWith(Lower(cs), cCacheSuffix)
                THEN Str(WithoutSuffix(cs, cCacheSuffix))
                ELSE repo_name
          /\ log[k].offset < idx => repo_name \in DOMAIN repo_user_map

\* The name ends, in any letter case, with "-manage".
IsManageName(g) == EndsWith(Lower(Chars(g)), cManageSuffix)

\* The permissions response at position k of the log names a manage group.
HasManageGroup(k) ==
    \E m \in 1..Len(PermGroups(log[k].arg)) :
        IsManageName(PermGroups(log[k].arg)[m])

\* C15  Two-hop ordering: every group-membership request directly follows
\* the permissions request of the same repository, which succeeded; the group
\* requested ends with "-manage" in any letter case and no group before it in
\* the permissions response does; after a permissions request that failed or
\* whose response names no such group, the next request is not a
\* group-membership request and the repository maps to "NA".
C15_TwoHopOrdering ==
    /\ \A k \in EventsOf({"groups"}) :
          /\ k > 1
          /\ log[k - 1].op = "permissions"
          /\ log[k - 1].resp = "ok"
          /\ log[k - 1].offset = log[k].offset
          /\ IsManageName(log[k].arg)
          /\ LET groups == PermGroups(log[k - 1].arg) IN
             \E m \in 1..Len(groups) :
                /\ groups[m] = log[k].arg
                /\ \A j \in 1..(m - 1) : ~IsManageName(groups[j])
    /\ \A k \in EventsOf({"permissions"}) :
          IF log[k].resp = "ok" /\ HasManageGroup(k)
          THEN /\ k = Len(log) => pc = "group"
               /\ k < Len(log) => log[k + 1].op = "groups"
          ELSE /\ k = Len(log) => pc # "group"
               /\ k < Len(log) => log[k + 1].op # "groups"
               /\ \A j \in EventsOf({"groups"}) : log[j].offset # log[k].offset
               /\ log[k].offset < idx
               /\ repo_user_map[CleanRepo(unique_repos[log[k].offset])] = "NA"

C15_Witness ==
    /\ pc = "done"
    /\ script = "updated"
    /\ \E k \in EventsOf({"groups"}) :
          /\ log[k].arg = Str(cLibsManage)
          /\ log[k - 1].arg = Str(cLibs)
          /\ log[k].resp = "ok"
    /\ repo_user_map[Str(cLibs)] = "alice|bob"
    /\ \E k \in EventsOf({"permissions"}) :
          log[k].arg = Str(cDocker) /\ log[k].resp = "ok"
    /\ \E k \in EventsOf({"permissions"}) :
          log[k].arg = Str(cMaven) /\ log[k].resp = "fail"
    /\ repo_user_map[Str(cDocker)] = "NA"
    /\ repo_user_map[Str(cMaven)] = "NA"

=============================================================================
